---------------------------- MODULE Spec2Model ----------------------------
(***************************************************************************)
(* A model of tag_to_svg.py: the conversion of pre-rendered apriltag PNG   *)
(* files into one SVG document.                                            *)
(*                                                                         *)
(* Strings the program splits, searches or formats (the --tag_id argument, *)
(* file paths, hex colours) are sequences of one-character strings, so     *)
(* that split, endswith, int() and the format specifications are modelled  *)
(* by what they compute.  Floating point quantities (tag_size, margin and  *)
(* everything derived from them) are exact rationals <<n, d>> in lowest    *)
(* terms with d > 0: rounding of IEEE doubles is not modelled.             *)
(* Of the print calls only the two per-tag error messages of main are      *)
(* recorded (stdout).                                                      *)
(***************************************************************************)
EXTENDS Integers, Sequences, FiniteSets, TLC

VARIABLES
    pc,          \* position of main: glob, parse, loop, emit, write, done, fatal
    tag_id,      \* args.tag_id, a character sequence
    cols,        \* args.cols
    tag_size,    \* args.tag_size, a rational
    margin,      \* args.margin, a rational
    disk,        \* the files of the family directory
    tag_all,     \* main's tag_all: the glob listing, a sequence of files
    tag_ids,     \* main's tag_ids
    idx,         \* 1-based position of the for loop of line 129 in tag_ids
    tag_images,  \* main's tag_images: an insertion-ordered dict, as a sequence of items
    svg_text,    \* main's apriltags_svg: <<>> until gen_apriltags_svg returned
    out_file,    \* the output file: [state, content]
    stdout,      \* the error messages printed by lines 132 and 137
    err          \* the exception that ended the run, "" if none

vars == <<pc, tag_id, cols, tag_size, margin, disk, tag_all, tag_ids, idx,
          tag_images, svg_text, out_file, stdout, err>>

-----------------------------------------------------------------------------
(* Bounds of the model. *)

MaxSpecLen == 5      \* longest --tag_id string of SpecIdSpec
MaxRange == 12       \* longest id list a --tag_id string of SpecIdSpec stands for
MaxIds == 3          \* longest comma list of Spec
MaxFiles == 2        \* most files on disk in Spec
MaxTags == 4         \* largest collection of SpecEmit
MaxCols == 3         \* largest --cols of SpecEmit
MaxTagSize == 1      \* largest --tag_size of SpecEmit
MaxMargin == 1       \* largest --margin of SpecEmit

-----------------------------------------------------------------------------
(* Sequences and characters. *)

Digits == <<"0", "1", "2", "3", "4", "5", "6", "7", "8", "9">>

IsDigit(c) == \E i \in 1..10 : Digits[i] = c

DigitVal(c) == (CHOOSE i \in 1..10 : Digits[i] = c) - 1

Range(s) == {s[i] : i \in 1..Len(s)}

\* x in s, for a one-character x
Contains(s, c) == \E i \in 1..Len(s) : s[i] = c

\* s.endswith(suffix)
EndsWith(s, suffix) ==
    /\ Len(suffix) <= Len(s)
    /\ SubSeq(s, Len(s) - Len(suffix) + 1, Len(s)) = suffix

\* index of the first c in s, 0 if there is none
FirstIndex(s, c) ==
    IF Contains(s, c) THEN CHOOSE i \in 1..Len(s) : s[i] = c /\ \A j \in 1..(i-1) : s[j] # c
    ELSE 0

\* s.split(c): the pieces between the occurrences of c, empty pieces kept
RECURSIVE Split(_, _)
Split(s, c) ==
    LET i == FirstIndex(s, c)
    IN  IF i = 0 THEN <<s>>
        ELSE <<SubSeq(s, 1, i - 1)>> \o Split(SubSeq(s, i + 1, Len(s)), c)

\* all orders in which the elements of a finite set can be listed
RECURSIVE Orders(_)
Orders(S) ==
    IF S = {} THEN {<<>>}
    ELSE UNION {{<<x>> \o t : t \in Orders(S \ {x})} : x \in S}

-----------------------------------------------------------------------------
(* int() and the 05d format. *)

AllDigits(tok) == Len(tok) >= 1 /\ \A i \in 1..Len(tok) : IsDigit(tok[i])

\* whether int(tok) returns; over the alphabet of the model an integer literal
\* is an optional minus sign followed by at least one decimal digit
IntParses(tok) ==
    \/ AllDigits(tok)
    \/ Len(tok) >= 2 /\ tok[1] = "-" /\ AllDigits(Tail(tok))

RECURSIVE NatOf(_)
NatOf(ds) ==
    IF ds = <<>> THEN 0
    ELSE 10 * NatOf(SubSeq(ds, 1, Len(ds) - 1)) + DigitVal(ds[Len(ds)])

\* int(tok), for a tok that parses
IntOf(tok) == IF tok[1] = "-" THEN 0 - NatOf(Tail(tok)) ELSE NatOf(tok)

RECURSIVE Decimal(_)
Decimal(n) ==
    IF n < 10 THEN <<Digits[n + 1]>>
    ELSE Decimal(n \div 10) \o <<Digits[(n % 10) + 1]>>

RECURSIVE ZeroPad(_, _)
ZeroPad(ds, width) == IF Len(ds) >= width THEN ds ELSE ZeroPad(<<"0">> \o ds, width)

\* f'{n:05d}': zero padded to five characters, the sign counted in the width
Fmt05d(n) ==
    IF n >= 0 THEN ZeroPad(Decimal(n), 5)
    ELSE <<"-">> \o ZeroPad(Decimal(0 - n), 4)

-----------------------------------------------------------------------------
(* Lines 120-126 of main: the id-specification. *)

\* whether lines 120-126 raise (ValueError from int() or from the unpacking
\* of line 123)
ParseRaises(s) ==
    IF Contains(s, ",")
    THEN \E t \in Range(Split(s, ",")) : ~IntParses(t)
    ELSE IF Contains(s, "-")
    THEN LET parts == Split(s, "-")
         IN  \/ Len(parts) # 2
             \/ ~IntParses(parts[1])
             \/ ~IntParses(parts[2])
    ELSE ~IntParses(s)

\* the end excluded: range(a, b)
RangeListExclusive(a, b) == [i \in 1..(IF b > a THEN b - a ELSE 0) |-> a + i - 1]

\* range(a, b + 1) as a list
RangeList(a, b) == [i \in 1..(IF b >= a THEN b - a + 1 ELSE 0) |-> a + i - 1]

\* tag_ids of lines 120-126, for a specification that does not raise
ParseTagIds(s) ==
    IF Contains(s, ",")
    THEN LET toks == Split(s, ",") IN [i \in 1..Len(toks) |-> IntOf(toks[i])]
    ELSE IF Contains(s, "-")
    THEN LET parts == Split(s, "-") IN RangeList(IntOf(parts[1]), IntOf(parts[2]))
    ELSE <<IntOf(s)>>

-----------------------------------------------------------------------------
(* Files.  A file of the family directory is a record: its path, whether   *)
(* os.path.exists holds of it (a broken symbolic link is listed by glob    *)
(* and does not exist), whether PIL can decode it, and the decoded image:  *)
(* mode, width, height and px, the rows of pixels from top to bottom.  A   *)
(* pixel is <<r, g, b, a>> in mode RGBA, <<r, g, b>> in mode RGB and a     *)
(* number in modes L and P.                                                *)

Dir == <<"f", "/">>

Png == <<".", "p", "n", "g">>

\* os.path.basename(path)
RECURSIVE Basename(_)
Basename(path) ==
    IF Contains(path, "/") THEN Basename(SubSeq(path, FirstIndex(path, "/") + 1, Len(path)))
    ELSE path

\* whether glob's pattern f'{family}/*_*.png' matches the path: the file is in
\* the family directory, its name does not start with a dot (which * does not
\* match), ends with .png and has an underscore before that
GlobMatches(path) ==
    /\ Len(path) > Len(Dir)
    /\ SubSeq(path, 1, Len(Dir)) = Dir
    /\ LET name == SubSeq(path, Len(Dir) + 1, Len(path))
       IN  /\ ~Contains(name, "/")
           /\ name[1] # "."
           /\ EndsWith(name, Png)
           /\ Contains(SubSeq(name, 1, Len(name) - Len(Png)), "_")

\* f'_{tag_id:05d}.png' of line 130
Suffix(tid) == <<"_">> \o Fmt05d(tid) \o Png

\* [file for file in listing if file.endswith(f'_{tag_id:05d}.png')]
RECURSIVE Matching(_, _)
Matching(listing, tid) ==
    IF listing = <<>> THEN <<>>
    ELSE (IF EndsWith(Head(listing), Suffix(tid)) THEN <<Head(listing)>> ELSE <<>>)
         \o Matching(Tail(listing), tid)

\* os.path.basename(tag_file).split('.')[0] of line 135
TagName(path) == Split(Basename(path), ".")[1]

FileAt(d, path) == CHOOSE f \in d : f.path = path

\* os.path.exists(path)
PathExists(d, path) == \E f \in d : f.path = path /\ f.exists

\* whether Image.open / np.array raise on the file
Decodable(d, path) == FileAt(d, path).decodable

\* np.array(pil_image): shape (height, width) for the single-band modes,
\* (height, width, bands) otherwise; no conversion of the mode
NpArray(img) ==
    [shape |-> IF img.mode \in {"L", "P"} THEN <<img.height, img.width>>
               ELSE <<img.height, img.width, IF img.mode = "RGB" THEN 3 ELSE 4>>,
     data  |-> img.px]

-----------------------------------------------------------------------------
(* The insertion-ordered dict tag_images: a sequence of [name, image]. *)

DictHas(d, k) == \E i \in 1..Len(d) : d[i].name = k

\* a list in place of the dict: every store appends
DictSetAppend(d, k, v) == Append(d, [name |-> k, image |-> v])

\* d[k] = v: a new key is appended, an existing key keeps its position
DictSet(d, k, v) ==
    IF DictHas(d, k)
    THEN [i \in 1..Len(d) |-> IF d[i].name = k THEN [name |-> k, image |-> v] ELSE d[i]]
    ELSE Append(d, [name |-> k, image |-> v])

-----------------------------------------------------------------------------
(* Exact arithmetic for the float expressions of gen_apriltags_svg. *)

RECURSIVE Gcd(_, _)
Gcd(a, b) == IF b = 0 THEN a ELSE Gcd(b, a % b)

Abs(a) == IF a < 0 THEN 0 - a ELSE a

\* the rational n/d (d > 0) in lowest terms
Rat(n, d) == LET g == Gcd(Abs(n), d) IN <<n \div g, d \div g>>

RInt(a) == <<a, 1>>

RAdd(p, q) == Rat(p[1] * q[2] + q[1] * p[2], p[2] * q[2])

RMul(p, q) == Rat(p[1] * q[1], p[2] * q[2])

RSub(p, q) == Rat(p[1] * q[2] - q[1] * p[2], p[2] * q[2])

RLeq(p, q) == p[1] * q[2] <= q[1] * p[2]

\* the floor in place of the ceiling: n // c
CeilFloor(n, c) == n \div c

\* math.ceil(n / c) for n >= 0, c >= 1
Ceil(n, c) == IF n % c = 0 THEN n \div c ELSE (n \div c) + 1

-----------------------------------------------------------------------------
(* gen_rgba and the hex colour of line 105. *)

HexDigits == <<"0", "1", "2", "3", "4", "5", "6", "7", "8", "9",
               "a", "b", "c", "d", "e", "f">>

RECURSIVE Hex(_)
Hex(v) ==
    IF v < 16 THEN <<HexDigits[v + 1]>>
    ELSE Hex(v \div 16) \o <<HexDigits[(v % 16) + 1]>>

\* f'{v:02x}'
Fmt02x(v) == ZeroPad(Hex(v), 2)

\* the hex digits without the padding to two: f'{v:x}'
RgbHexNoPad(pixel) == <<"#">> \o Hex(pixel[1]) \o Hex(pixel[2]) \o Hex(pixel[3])

\* '#' + ''.join([f'{v:02x}' for v in pixel[:3]])
RgbHex(pixel) == <<"#">> \o Fmt02x(pixel[1]) \o Fmt02x(pixel[2]) \o Fmt02x(pixel[3])

\* the number of values tag_image[_y, _x] unpacks to: the bands of a
\* three-dimensional array; a pixel of a two-dimensional array is a scalar,
\* which does not unpack (0)
PixelArity(arr) == IF Len(arr.shape) = 3 THEN arr.shape[3] ELSE 0

\* whether gen_rgba(tag_image[_y, _x]) raises: line 62 unpacks exactly four values
GenRgbaRaises(arr) == PixelArity(arr) # 4

\* gen_rgba(rbga), for a pixel of four values: r, g, b and a = _raw_a / 255
gen_rgba(rbga) == [r |-> rbga[1], g |-> rbga[2], b |-> rbga[3], a |-> Rat(rbga[4], 255)]

-----------------------------------------------------------------------------
(* gen_apriltags_svg, lines 81-114.  The document is the sequence of the   *)
(* elements the function concatenates: the root element, then per tag its  *)
(* pixel rectangles, its text and its border rectangle, then the end tag.  *)

\* tag_size + (2*margin)
Pitch(ts, m) == RAdd(ts, RMul(RInt(2), m))

\* row and column exchanged: the grid filled column by column
GridRowMod(i, c) == i % c

\* lines 96-99: row, col, x, y of the tag at 0-based position i
GridRow(i, c) == i \div c

GridCol(i, c) == i % c

OriginX(i, ts, m, c) == RAdd(RMul(RInt(GridCol(i, c)), Pitch(ts, m)), m)

OriginY(i, ts, m, c) == RAdd(RMul(RInt(GridRow(i, c)), Pitch(ts, m)), m)

\* the axes exchanged: the width of a pixel from the height of the raster
PixWidthFromHeight(arr, ts) == RMul(ts, Rat(1, arr.shape[1]))

\* line 100: pix_height from shape[0], pix_width from shape[1]
PixHeight(arr, ts) == RMul(ts, Rat(1, arr.shape[1]))

PixWidth(arr, ts) == RMul(ts, Rat(1, arr.shape[2]))

\* lines 104-107: the rectangle of pixel (_x, _y), both 0-based
PixelRect(name, arr, x, y, ts, px, py) ==
    [el     |-> "rect",
     width  |-> PixWidth(arr, ts),
     height |-> PixHeight(arr, ts),
     x      |-> RAdd(x, RMul(RInt(px), PixWidth(arr, ts))),
     y      |-> RAdd(y, RMul(RInt(py), PixHeight(arr, ts))),
     id     |-> <<name, px, py>>,
     fill   |-> RgbHex(arr.data[py + 1][px + 1])]

\* lines 102-107: for _y in range(shape[0]): for _x in range(shape[1])
PixelRects(name, arr, x, y, ts) ==
    LET h == arr.shape[1]
        w == arr.shape[2]
    IN  [k \in 1..(h * w) |-> PixelRect(name, arr, x, y, ts, (k - 1) % w, (k - 1) \div w)]

\* line 109
TextElement(name, x, y, ts, m) ==
    [el        |-> "text",
     x         |-> RAdd(x, RMul(ts, Rat(1, 2))),
     y         |-> RAdd(RAdd(y, ts), RMul(Rat(4, 5), m)),
     font_size |-> RMul(m, Rat(4, 5)),
     name      |-> name]

\* line 111
BorderRect(x, y, ts, m) ==
    [el     |-> "border",
     width  |-> RAdd(RAdd(ts, m), m),
     height |-> RAdd(RAdd(ts, m), m),
     x      |-> RSub(x, m),
     y      |-> RSub(y, m)]

\* lines 95-111 for the item at 1-based position n of the collection
TagElements(images, n, ts, m, c) ==
    LET x == OriginX(n - 1, ts, m, c)
        y == OriginY(n - 1, ts, m, c)
    IN  PixelRects(images[n].name, images[n].image, x, y, ts)
        \o <<TextElement(images[n].name, x, y, ts, m)>>
        \o <<BorderRect(x, y, ts, m)>>

RECURSIVE AllTagElements(_, _, _, _, _)
AllTagElements(images, n, ts, m, c) ==
    IF n > Len(images) THEN <<>>
    ELSE TagElements(images, n, ts, m, c) \o AllTagElements(images, n + 1, ts, m, c)

\* lines 83-85
SvgRows(images, c) == Ceil(Len(images), c)

SvgWidth(ts, m, c) == RAdd(RMul(Pitch(ts, m), RInt(c)), m)

SvgHeight(images, ts, m, c) == RAdd(RMul(Pitch(ts, m), RInt(SvgRows(images, c))), m)

\* line 94
RootElement(images, ts, m, c) ==
    [el |-> "svg", width |-> SvgWidth(ts, m, c), height |-> SvgHeight(images, ts, m, c)]

\* whether the pixel loop of lines 102-104 raises on the array: it has a
\* pixel, and gen_rgba cannot unpack it
TagRaises(arr) == arr.shape[1] * arr.shape[2] > 0 /\ GenRgbaRaises(arr)

\* the exception gen_apriltags_svg raises, "" if it returns: line 83 divides
\* by cols; line 104 unpacks four values from the first pixel of each tag
\* in turn
GenSvgError(images, c) ==
    IF c = 0 THEN "ZeroDivisionError"
    ELSE IF \E n \in 1..Len(images) : TagRaises(images[n].image)
    THEN LET n == CHOOSE k \in 1..Len(images) :
                     /\ TagRaises(images[k].image)
                     /\ \A j \in 1..(k - 1) : ~TagRaises(images[j].image)
         IN  IF PixelArity(images[n].image) = 0 THEN "TypeError" ELSE "ValueError"
    ELSE ""

\* the returned svg_text
gen_apriltags_svg(images, ts, m, c) ==
    <<RootElement(images, ts, m, c)>>
    \o AllTagElements(images, 1, ts, m, c)
    \o <<[el |-> "end"]>>

-----------------------------------------------------------------------------
(* main, lines 116-148. *)

Untouched == [state |-> "untouched", content |-> <<>>]

\* line 119: glob.glob returns the matching paths in the order of the
\* directory listing, which is arbitrary
Glob ==
    /\ pc = "glob"
    /\ tag_all' \in Orders({f.path : f \in {g \in disk : GlobMatches(g.path)}})
    /\ pc' = "parse"
    /\ UNCHANGED <<tag_id, cols, tag_size, margin, disk, tag_ids, idx, tag_images,
                   svg_text, out_file, stdout, err>>

\* the exception of lines 120-126 caught and the run continued with no ids
ParseStepLenient ==
    /\ pc = "parse"
    /\ tag_ids' = IF ParseRaises(tag_id) THEN <<>> ELSE ParseTagIds(tag_id)
    /\ pc' = IF ParseRaises(tag_id) \/ ParseTagIds(tag_id) = <<>> THEN "emit" ELSE "loop"
    /\ UNCHANGED <<tag_id, cols, tag_size, margin, disk, tag_all, idx, tag_images,
                   svg_text, out_file, stdout, err>>

\* lines 120-128
ParseStep ==
    /\ pc = "parse"
    /\ IF ParseRaises(tag_id)
       THEN /\ pc' = "fatal"
            /\ err' = "ValueError"
            /\ UNCHANGED tag_ids
       ELSE /\ tag_ids' = ParseTagIds(tag_id)
            /\ pc' = IF ParseTagIds(tag_id) = <<>> THEN "emit" ELSE "loop"
            /\ UNCHANGED err
    /\ UNCHANGED <<tag_id, cols, tag_size, margin, disk, tag_all, idx, tag_images,
                   svg_text, out_file, stdout>>

\* where the for loop of line 129 goes after the iteration at position i
AfterIteration(ids, i) == IF i + 1 > Len(ids) THEN "emit" ELSE "loop"

\* lines 130-139 for one id: which way the iteration goes
LoadOutcome(listing, d, id) ==
    LET tag_file == Matching(listing, id)
    IN  IF Len(tag_file) = 0 THEN "no match"
        ELSE IF ~PathExists(d, tag_file[1]) THEN "not found"
        ELSE IF ~Decodable(d, tag_file[1]) THEN "undecodable"
        ELSE "loaded"

\* line 134: tag_file[0], the first match of the listing
SelectedFile(listing, id) == Matching(listing, id)[1]

\* line 140: tag_images[tag_name] = np.array(pil_image)
StoreImage(images, d, path) == DictSet(images, TagName(path), NpArray(FileAt(d, path)))

\* lines 129-140: one iteration of the loop
LoadTag ==
    /\ pc = "loop"
    /\ LET id      == tag_ids[idx]
           outcome == LoadOutcome(tag_all, disk, id)
       IN  IF outcome = "no match"
           THEN /\ stdout' = Append(stdout, [line |-> 132, what |-> <<id>>])
                /\ pc' = AfterIteration(tag_ids, idx)
                /\ idx' = idx + 1
                /\ UNCHANGED <<tag_images, err>>
           ELSE IF outcome = "not found"
           THEN /\ stdout' = Append(stdout, [line |-> 137, what |-> SelectedFile(tag_all, id)])
                /\ pc' = AfterIteration(tag_ids, idx)
                /\ idx' = idx + 1
                /\ UNCHANGED <<tag_images, err>>
           ELSE IF outcome = "undecodable"
           THEN /\ pc' = "fatal"
                /\ err' = "UnidentifiedImageError"
                /\ UNCHANGED <<tag_images, idx, stdout>>
           ELSE /\ tag_images' = StoreImage(tag_images, disk, SelectedFile(tag_all, id))
                /\ pc' = AfterIteration(tag_ids, idx)
                /\ idx' = idx + 1
                /\ UNCHANGED <<stdout, err>>
    /\ UNCHANGED <<tag_id, cols, tag_size, margin, disk, tag_all, tag_ids,
                   svg_text, out_file>>

\* line 142: the call of gen_apriltags_svg
GenSvg ==
    /\ pc = "emit"
    /\ IF GenSvgError(tag_images, cols) # ""
       THEN /\ pc' = "fatal"
            /\ err' = GenSvgError(tag_images, cols)
            /\ UNCHANGED svg_text
       ELSE /\ svg_text' = gen_apriltags_svg(tag_images, tag_size, margin, cols)
            /\ pc' = "write"
            /\ UNCHANGED err
    /\ UNCHANGED <<tag_id, cols, tag_size, margin, disk, tag_all, tag_ids, idx,
                   tag_images, out_file, stdout>>

\* lines 145-146: the file is opened for writing and the document written
WriteFile ==
    /\ pc = "write"
    /\ out_file' = [state |-> "written", content |-> svg_text]
    /\ pc' = "done"
    /\ UNCHANGED <<tag_id, cols, tag_size, margin, disk, tag_all, tag_ids, idx,
                   tag_images, svg_text, stdout, err>>

\* lines 145-146, failing: open raises (the file is as it was) or write
\* raises (the file was truncated and may hold a part of the document)
WriteFails ==
    /\ pc = "write"
    /\ \E st \in {"untouched", "partial"} : out_file' = [state |-> st, content |-> <<>>]
    /\ pc' = "fatal"
    /\ err' = "OSError"
    /\ UNCHANGED <<tag_id, cols, tag_size, margin, disk, tag_all, tag_ids, idx,
                   tag_images, svg_text, stdout>>

Next == Glob \/ ParseStep \/ LoadTag \/ GenSvg \/ WriteFile \/ WriteFails

-----------------------------------------------------------------------------
(* main as a function of its arguments, the disk and the listing glob      *)
(* returned: the composition of the steps above.                           *)

\* lines 128-140: the loop from position i on
RECURSIVE LoadLoop(_, _, _, _, _)
LoadLoop(listing, d, ids, i, images) ==
    IF i > Len(ids) THEN [err |-> "", images |-> images]
    ELSE LET outcome == LoadOutcome(listing, d, ids[i])
         IN  IF outcome = "undecodable"
             THEN [err |-> "UnidentifiedImageError", images |-> images]
             ELSE IF outcome = "loaded"
             THEN LoadLoop(listing, d, ids, i + 1,
                           StoreImage(images, d, SelectedFile(listing, ids[i])))
             ELSE LoadLoop(listing, d, ids, i + 1, images)

\* lines 119-142: the exception that ends main before the write ("" if
\* none) and the document handed to the write
MainResult(s, ts, m, c, d, listing) ==
    IF ParseRaises(s) THEN [err |-> "ValueError", doc |-> <<>>]
    ELSE LET loaded == LoadLoop(listing, d, ParseTagIds(s), 1, <<>>)
         IN  IF loaded.err # "" THEN [err |-> loaded.err, doc |-> <<>>]
             ELSE IF GenSvgError(loaded.images, c) # ""
             THEN [err |-> GenSvgError(loaded.images, c), doc |-> <<>>]
             ELSE [err |-> "", doc |-> gen_apriltags_svg(loaded.images, ts, m, c)]

\* the listings glob can return for a disk
Listings(d) == Orders({f.path : f \in {g \in d : GlobMatches(g.path)}})

-----------------------------------------------------------------------------
(* Inputs. *)

Black == <<0, 0, 0, 255>>

White == <<255, 255, 255, 255>>

\* a coloured, fully transparent pixel
Clear == <<18, 171, 254, 0>>

File(name, exists, decodable, mode, width, height, px) ==
    [path |-> Dir \o name \o Png, exists |-> exists, decodable |-> decodable,
     mode |-> mode, width |-> width, height |-> height, px |-> px]

\* the files a disk of Spec is made of: two files for id 1, two files whose
\* names give the same tag name, a grayscale file, a broken link and a
\* file that is no image
Catalogue ==
    { File(<<"t", "_", "0", "0", "0", "0", "0">>, TRUE, TRUE, "RGBA", 2, 2,
           <<<<Black, White>>, <<White, Clear>>>>),
      File(<<"t", "_", "0", "0", "0", "0", "1">>, TRUE, TRUE, "RGBA", 2, 1,
           <<<<White, Black>>>>),
      File(<<"t", ".", "u", "_", "0", "0", "0", "0", "1">>, TRUE, TRUE, "RGBA", 1, 2,
           <<<<Clear>>, <<Black>>>>),
      File(<<"t", ".", "v", "_", "0", "0", "0", "0", "2">>, TRUE, TRUE, "RGBA", 1, 1,
           <<<<White>>>>),
      File(<<"t", "_", "0", "0", "0", "0", "2">>, TRUE, TRUE, "L", 1, 1,
           <<<<0>>>>),
      File(<<"b", "_", "0", "0", "0", "0", "0">>, FALSE, FALSE, "RGBA", 1, 1,
           <<<<Black>>>>),
      File(<<"c", "_", "0", "0", "0", "0", "2">>, TRUE, FALSE, "RGBA", 1, 1,
           <<<<Black>>>>) }

\* the ids the catalogue has files for
TagIdPool == {0, 1, 2}

\* ','.join of the decimal numerals of a non-empty list of ids
RECURSIVE CommaList(_)
CommaList(ids) ==
    IF Len(ids) = 1 THEN Decimal(ids[1])
    ELSE Decimal(ids[1]) \o <<",">> \o CommaList(Tail(ids))

RangeSpec(a, b) == Decimal(a) \o <<"-">> \o Decimal(b)

\* the id-specifications of Spec: the comma lists of up to MaxIds ids of the
\* pool (a list of one id is the single form) and the ranges over the pool
LoadSpecs ==
    {CommaList(l) : l \in UNION {[1..n -> TagIdPool] : n \in 1..MaxIds}}
    \cup {RangeSpec(a, b) : a \in TagIdPool, b \in TagIdPool}

DefaultCols == 3

DefaultTagSize == Rat(75, 2)

DefaultMargin == RInt(5)

\* the state main starts in, for given arguments and files
Start(s, c, ts, m, d) ==
    /\ pc = "glob"
    /\ tag_id = s
    /\ cols = c
    /\ tag_size = ts
    /\ margin = m
    /\ disk = d
    /\ tag_all = <<>>
    /\ tag_ids = <<>>
    /\ idx = 1
    /\ tag_images = <<>>
    /\ svg_text = <<>>
    /\ out_file = Untouched
    /\ stdout = <<>>
    /\ err = ""

\* runs with the default layout over every disk of at most MaxFiles files
Init ==
    \E s \in LoadSpecs, d \in {S \in SUBSET Catalogue : Cardinality(S) <= MaxFiles} :
        Start(s, DefaultCols, DefaultTagSize, DefaultMargin, d)

Spec == Init /\ [][Next]_vars

-----------------------------------------------------------------------------
(* SpecIdSpec: runs over every --tag_id string of at most MaxSpecLen       *)
(* characters of the alphabet, on one disk.                                *)

Alphabet == {"0", "1", "2", ",", "-", "x"}

\* a file for id 1, and a file for id 2 that glob's * does not list
IdSpecDisk ==
    { File(<<"t", "_", "0", "0", "0", "0", "1">>, TRUE, TRUE, "RGBA", 2, 1,
           <<<<White, Black>>>>),
      File(<<".", "t", "_", "0", "0", "0", "0", "2">>, TRUE, TRUE, "RGBA", 1, 1,
           <<<<Black>>>>) }

IdSpecStrings ==
    {s \in UNION {[1..n -> Alphabet] : n \in 0..MaxSpecLen} :
        ParseRaises(s) \/ Len(ParseTagIds(s)) <= MaxRange}

InitIdSpec ==
    \E s \in IdSpecStrings :
        Start(s, DefaultCols, DefaultTagSize, DefaultMargin, IdSpecDisk)

SpecIdSpec == InitIdSpec /\ [][Next]_vars

-----------------------------------------------------------------------------
(* SpecEmit: gen_apriltags_svg and the write, from the states in which     *)
(* main calls it: the loop has loaded the files of ids 1..n, n up to       *)
(* MaxTags, each file with one of the images of EmitImages.                *)

EmitImages ==
    { [mode |-> "RGBA", width |-> 2, height |-> 1, px |-> <<<<White, Clear>>>>],
      [mode |-> "RGBA", width |-> 1, height |-> 2, px |-> <<<<Black>>, <<White>>>>],
      [mode |-> "L", width |-> 1, height |-> 1, px |-> <<<<0>>>>] }

EmitFile(i, img) ==
    File(<<"t", "_">> \o Fmt05d(i), TRUE, TRUE, img.mode, img.width, img.height, img.px)

\* --tag_size and --margin in steps of half a millimetre, and the defaults
TagSizes == {Rat(k, 2) : k \in 1..MaxTagSize} \cup {DefaultTagSize}

Margins == {Rat(k, 2) : k \in 0..MaxMargin} \cup {DefaultMargin}

\* the ids 1..n as a range, or n..1 as a comma list
EmitSpec(n, descending) ==
    IF descending /\ n >= 2 THEN CommaList([i \in 1..n |-> n + 1 - i]) ELSE RangeSpec(1, n)

InitEmit ==
    \E n \in 0..MaxTags, c \in 0..MaxCols, ts \in TagSizes, m \in Margins, descending \in BOOLEAN :
        \E imgs \in [1..n -> EmitImages] :
            LET d       == {EmitFile(i, imgs[i]) : i \in 1..n}
                listing == [i \in 1..n |-> EmitFile(i, imgs[i]).path]
                ids     == ParseTagIds(EmitSpec(n, descending))
            IN  /\ pc = "emit"
                /\ tag_id = EmitSpec(n, descending)
                /\ cols = c
                /\ tag_size = ts
                /\ margin = m
                /\ disk = d
                /\ tag_all = listing
                /\ tag_ids = ids
                /\ idx = n + 1
                /\ tag_images = LoadLoop(listing, d, ids, 1, <<>>).images
                /\ svg_text = <<>>
                /\ out_file = Untouched
                /\ stdout = <<>>
                /\ err = ""

NextEmit == GenSvg \/ WriteFile \/ WriteFails

SpecEmit == InitEmit /\ [][NextEmit]_vars

-----------------------------------------------------------------------------
(* Reading a document back. *)

\* the elements of a kind, in document order
RECURSIVE SelectEl(_, _)
SelectEl(doc, kind) ==
    IF doc = <<>> THEN <<>>
    ELSE (IF Head(doc).el = kind THEN <<Head(doc)>> ELSE <<>>) \o SelectEl(Tail(doc), kind)

\* the pixel rectangles of the tag of a name, in document order
RECURSIVE RectsOf(_, _)
RectsOf(doc, name) ==
    IF doc = <<>> THEN <<>>
    ELSE (IF Head(doc).el = "rect" /\ Head(doc).id[1] = name THEN <<Head(doc)>> ELSE <<>>)
         \o RectsOf(Tail(doc), name)

HexVal(c) == (CHOOSE i \in 1..16 : HexDigits[i] = c) - 1

IsHex(c) == \E i \in 1..16 : HexDigits[i] = c

\* the colour a fill of the form #rrggbb names
FillRGB(fill) ==
    <<16 * HexVal(fill[2]) + HexVal(fill[3]),
      16 * HexVal(fill[4]) + HexVal(fill[5]),
      16 * HexVal(fill[6]) + HexVal(fill[7])>>

Emitted == svg_text # <<>>

\* tag_size + 2 * margin of the run
P == RAdd(tag_size, RAdd(margin, margin))

\* k * q for a natural k
RTimes(k, q) == Rat(k * q[1], q[2])

-----------------------------------------------------------------------------
(* C6: the tags are emitted in the order in which their ids were resolved, *)
(* and the tag at 0-based position i of that order has row = i div cols,   *)
(* col = i mod cols, origin_x = col*(tag_size+2*margin)+margin and         *)
(* origin_y = row*(tag_size+2*margin)+margin: its text, its border and its *)
(* first pixel rectangle are placed from that origin; no two tags get the  *)
(* same cell.                                                              *)
C6_GridPlacement ==
    Emitted =>
        LET texts   == SelectEl(svg_text, "text")
            borders == SelectEl(svg_text, "border")
        IN  /\ Len(texts) = Len(tag_images)
            /\ Len(borders) = Len(tag_images)
            /\ Len(tag_images) = Len(tag_ids)
            /\ \A n \in 1..Len(tag_images) :
                  LET row == (n - 1) \div cols
                      col == (n - 1) % cols
                      ox  == RAdd(RTimes(col, P), margin)
                      oy  == RAdd(RTimes(row, P), margin)
                      rs  == RectsOf(svg_text, tag_images[n].name)
                  IN  /\ tag_images[n].name = <<"t", "_">> \o Fmt05d(tag_ids[n])
                      /\ texts[n].name = tag_images[n].name
                      /\ texts[n].x = RAdd(ox, Rat(tag_size[1], 2 * tag_size[2]))
                      /\ borders[n].x = RTimes(col, P)
                      /\ borders[n].y = RTimes(row, P)
                      /\ rs # <<>>
                      /\ rs[1].x = ox
                      /\ rs[1].y = oy
            /\ \A i, j \in 1..Len(borders) :
                  i # j => <<borders[i].x, borders[i].y>> # <<borders[j].x, borders[j].y>>

\* with three columns the fourth tag of a descending list starts the second row
C6_Witness ==
    /\ pc = "done"
    /\ cols = 3
    /\ tag_ids = <<4, 3, 2, 1>>
    /\ Len(tag_images) = 4
    /\ SelectEl(out_file.content, "border")[4].x = RInt(0)
    /\ SelectEl(out_file.content, "border")[4].y = P
    /\ SelectEl(out_file.content, "text")[4].name = <<"t", "_", "0", "0", "0", "0", "1">>

-----------------------------------------------------------------------------
(* C7: for cols >= 1 the canvas of a collection of count tags has          *)
(* rows = ceil(count/cols), width = (tag_size+2*margin)*cols+margin and    *)
(* height = (tag_size+2*margin)*rows+margin; gen_apriltags_svg returns a   *)
(* document for the empty collection too, with rows = 0, height = margin,  *)
(* a canvas that is not negative and no tag element.                       *)
C7_Canvas ==
    /\ (cols >= 1 /\ tag_images = <<>> /\ pc # "emit") => Emitted
    /\ Emitted =>
        LET count == Len(tag_images)
            rows  == CHOOSE r \in 0..count :
                        r * cols >= count /\ \A q \in 0..(r - 1) : q * cols < count
            root  == svg_text[1]
        IN  /\ cols >= 1
            /\ root.el = "svg"
            /\ root.width = RAdd(RTimes(cols, P), margin)
            /\ root.height = RAdd(RTimes(rows, P), margin)
            /\ svg_text[Len(svg_text)].el = "end"
            /\ Len(SelectEl(svg_text, "svg")) = 1
            /\ Len(SelectEl(svg_text, "end")) = 1
            /\ RLeq(RInt(0), root.width)
            /\ RLeq(RInt(0), root.height)
            /\ count = 0 => /\ rows = 0
                            /\ root.height = margin
                            /\ Len(svg_text) = 2

\* the example of the specification: one tag, tag_size 37.5, margin 5,
\* three columns: a canvas of 147.5 by 52.5
C7_Witness ==
    /\ pc = "done"
    /\ Len(tag_images) = 1
    /\ cols = 3
    /\ tag_size = Rat(75, 2)
    /\ margin = RInt(5)
    /\ out_file.content[1].width = Rat(295, 2)
    /\ out_file.content[1].height = Rat(105, 2)

\* the empty collection, written
C7_EmptyWritten ==
    /\ pc = "done"
    /\ tag_images = <<>>
    /\ Len(out_file.content) = 2
    /\ out_file.content[1].height = margin

-----------------------------------------------------------------------------
-----------------------------------------------------------------------------
(* Rectangles of a document. *)

Inside(x, y, w, h, root) ==
    /\ RLeq(RInt(0), x)
    /\ RLeq(RInt(0), y)
    /\ RLeq(RAdd(x, w), root.width)
    /\ RLeq(RAdd(y, h), root.height)

\* the rectangle of pixel (px, py) among the rectangles rs of a tag
RectAt(rs, px, py) == rs[CHOOSE k \in 1..Len(rs) : rs[k].id[2] = px /\ rs[k].id[3] = py]

-----------------------------------------------------------------------------
(* C10: with tag_size > 0, margin >= 0 and cols >= 1 every rectangle of a  *)
(* document lies inside the canvas; the pixel rectangles of a tag tile the *)
(* square of side tag_size at its origin without gap or overlap, also for  *)
(* a raster that is not square; the border of a tag is the cell            *)
(* [col*P, (col+1)*P] x [row*P, (row+1)*P], and the borders of two tags do *)
(* not overlap.                                                            *)
C10_Geometry ==
    (Emitted /\ RLeq(RInt(0), margin) /\ tag_size[1] > 0) =>
        LET root    == svg_text[1]
            borders == SelectEl(svg_text, "border")
        IN  /\ \A n \in 1..Len(tag_images) :
                LET arr == tag_images[n].image
                    h   == arr.shape[1]
                    w   == arr.shape[2]
                    row == (n - 1) \div cols
                    col == (n - 1) % cols
                    ox  == RAdd(RTimes(col, P), margin)
                    oy  == RAdd(RTimes(row, P), margin)
                    rs  == RectsOf(svg_text, tag_images[n].name)
                    b   == borders[n]
                IN  /\ \A k \in 1..Len(rs) :
                          LET rect == rs[k]
                              px   == rect.id[2]
                              py   == rect.id[3]
                          IN  /\ Inside(rect.x, rect.y, rect.width, rect.height, root)
                              /\ rect.width[1] > 0
                              /\ rect.height[1] > 0
                              /\ px = 0 => rect.x = ox
                              /\ py = 0 => rect.y = oy
                              /\ px < w - 1 =>
                                   RAdd(rect.x, rect.width) = RectAt(rs, px + 1, py).x
                              /\ py < h - 1 =>
                                   RAdd(rect.y, rect.height) = RectAt(rs, px, py + 1).y
                              /\ px = w - 1 => RAdd(rect.x, rect.width) = RAdd(ox, tag_size)
                              /\ py = h - 1 => RAdd(rect.y, rect.height) = RAdd(oy, tag_size)
                    /\ Inside(b.x, b.y, b.width, b.height, root)
                    /\ b.x = RTimes(col, P)
                    /\ b.y = RTimes(row, P)
                    /\ RAdd(b.x, b.width) = RTimes(col + 1, P)
                    /\ RAdd(b.y, b.height) = RTimes(row + 1, P)
            /\ \A i, j \in 1..Len(borders) :
                  i # j =>
                     \/ RLeq(RAdd(borders[i].x, borders[i].width), borders[j].x)
                     \/ RLeq(RAdd(borders[j].x, borders[j].width), borders[i].x)
                     \/ RLeq(RAdd(borders[i].y, borders[i].height), borders[j].y)
                     \/ RLeq(RAdd(borders[j].y, borders[j].height), borders[i].y)

\* a written document of two rows whose last tag has a raster that is not square
C10_Witness ==
    /\ pc = "done"
    /\ cols = 2
    /\ Len(tag_images) = 3
    /\ tag_images[3].image.shape = <<1, 2, 4>>
    /\ Len(RectsOf(out_file.content, tag_images[3].name)) = 2
    /\ RectsOf(out_file.content, tag_images[3].name)[2].x
         = RAdd(margin, Rat(tag_size[1], 2 * tag_size[2]))

-----------------------------------------------------------------------------
(* The forms of an id-specification, read from its characters. *)

Count(s, c) == Cardinality({i \in 1..Len(s) : s[i] = c})

\* the position of the k-th c of s; 0 for k = 0 and Len(s) + 1 past the last
NthPos(s, c, k) ==
    IF k = 0 THEN 0
    ELSE IF k > Count(s, c) THEN Len(s) + 1
    ELSE CHOOSE i \in 1..Len(s) :
            s[i] = c /\ Cardinality({j \in 1..i : s[j] = c}) = k

\* the k-th field of s between separators c
Field(s, c, k) == SubSeq(s, NthPos(s, c, k - 1) + 1, NthPos(s, c, k) - 1)

\* a decimal numeral and the number it writes
IsNumeral(t) == t # <<>> /\ \A i \in 1..Len(t) : t[i] \in Range(Digits)

RECURSIVE Value(_)
Value(t) == IF t = <<>> THEN 0 ELSE 10 * Value(SubSeq(t, 1, Len(t) - 1)) + DigitVal(t[Len(t)])

\* n, a numeral
SingleForm(s) == IsNumeral(s)

\* a,b,c: two or more numerals between commas
CommaForm(s) == Count(s, ",") >= 1 /\ \A k \in 1..(Count(s, ",") + 1) : IsNumeral(Field(s, ",", k))

\* s-e: two numerals around one hyphen
RangeForm(s) == Count(s, "-") = 1 /\ IsNumeral(Field(s, "-", 1)) /\ IsNumeral(Field(s, "-", 2))

\* an integer literal: a numeral, or a numeral after a minus sign
IsIntLiteral(t) == IsNumeral(t) \/ (t # <<>> /\ t[1] = "-" /\ IsNumeral(Tail(t)))

\* an id-specification with a token that is no integer: the tokens are the
\* fields between commas if there is a comma, else those around hyphens if
\* there is a hyphen, else the whole string
Malformed(s) ==
    IF Count(s, ",") >= 1 THEN \E k \in 1..(Count(s, ",") + 1) : ~IsIntLiteral(Field(s, ",", k))
    ELSE IF Count(s, "-") >= 1 THEN \E k \in 1..(Count(s, "-") + 1) : ~IsNumeral(Field(s, "-", k))
    ELSE ~IsNumeral(s)

Parsed == pc \notin {"glob", "parse"}

-----------------------------------------------------------------------------
(* C1: once lines 120-126 have run, a single numeral n has given [n]; a    *)
(* comma list of numerals has given their values in the written order,     *)
(* duplicates kept; a range s-e has given the ascending list s..e, [s]     *)
(* for s = e and the empty list, without an error, for s > e.              *)
C1_Resolver ==
    Parsed =>
        /\ SingleForm(tag_id) => err # "ValueError" /\ tag_ids = <<Value(tag_id)>>
        /\ CommaForm(tag_id) =>
              /\ err # "ValueError"
              /\ Len(tag_ids) = Count(tag_id, ",") + 1
              /\ \A k \in 1..Len(tag_ids) : tag_ids[k] = Value(Field(tag_id, ",", k))
        /\ RangeForm(tag_id) =>
              LET a == Value(Field(tag_id, "-", 1))
                  b == Value(Field(tag_id, "-", 2))
              IN  /\ err # "ValueError"
                  /\ Len(tag_ids) = (IF a <= b THEN b - a + 1 ELSE 0)
                  /\ \A k \in 1..Len(tag_ids) : tag_ids[k] = a + k - 1
                  /\ a = b => tag_ids = <<a>>
                  /\ a > b => tag_ids = <<>> /\ pc # "loop"

\* the range 2-0 has given the empty list and the run has written its document
C1_Witness ==
    /\ tag_id = <<"2", "-", "0">>
    /\ tag_ids = <<>>
    /\ pc = "done"
    /\ err = ""

\* further cases of C1 that are reached
C1_CommaReached == tag_id = <<"2", ",", "0", ",", "2">> /\ tag_ids = <<2, 0, 2>> /\ pc = "done"

C1_RangeReached == tag_id = <<"0", "-", "2">> /\ tag_ids = <<0, 1, 2>> /\ pc = "done"

C1_SingleReached == tag_id = <<"0", "1", "2">> /\ tag_ids = <<12>> /\ pc = "done"

-----------------------------------------------------------------------------
(* C4: a malformed id-specification ends the run with a ValueError, and in *)
(* a run that ended with the ValueError of lines 120-126 no document was   *)
(* made and the output file was not created, opened or written.            *)
C4_MalformedFatal ==
    /\ (Parsed /\ Malformed(tag_id)) => (pc = "fatal" /\ err = "ValueError")
    /\ Malformed(tag_id) => (out_file = Untouched /\ svg_text = <<>> /\ tag_images = <<>>)
    /\ (err = "ValueError" /\ tag_ids = <<>> /\ idx = 1) => out_file = Untouched

\* the list 1,x has ended the run
C4_Witness ==
    /\ tag_id = <<"1", ",", "x">>
    /\ pc = "fatal"
    /\ err = "ValueError"
    /\ out_file = Untouched

-----------------------------------------------------------------------------
(* The requested ids of a run, once the loop of lines 129-140 has ended. *)

LoopEnded == pc \in {"emit", "write", "done"} \/ (pc = "fatal" /\ idx = Len(tag_ids) + 1 /\ tag_ids # <<>>)

\* the positions of tag_ids whose id has no matching file, or whose matched
\* path does not exist
MissingAt == {i \in 1..Len(tag_ids) : LoadOutcome(tag_all, disk, tag_ids[i]) \in {"no match", "not found"}}

\* the positions whose id has a file that was opened and decoded
LoadedAt == {i \in 1..Len(tag_ids) : LoadOutcome(tag_all, disk, tag_ids[i]) = "loaded"}

NameAt(i) == TagName(SelectedFile(tag_all, tag_ids[i]))

-----------------------------------------------------------------------------
(* C2, as claimed: after the loop the size of the collection is the number *)
(* of requested ids minus the number of requested ids without a file, for  *)
(* every id list, those that repeat an id included.                        *)
C2_SizeIsRequestedMinusMissing ==
    LoopEnded => Len(tag_images) = Len(tag_ids) - Cardinality(MissingAt)

(* C2, amended: after the loop the size of the collection is the number of *)
(* distinct tag names among the requested ids that have a file; it is the  *)
(* number of requested ids minus the number without a file exactly when no *)
(* two requested entries with a file give the same tag name, which a list  *)
(* that repeats an id with a file never satisfies.                         *)
C2_SizeIsDistinctNames ==
    LoopEnded =>
        /\ Len(tag_images) = Cardinality({NameAt(i) : i \in LoadedAt})
        /\ Len(tag_images) <= Len(tag_ids) - Cardinality(MissingAt)
        /\ (Len(tag_images) = Len(tag_ids) - Cardinality(MissingAt))
             <=> (\A i, j \in LoadedAt : NameAt(i) = NameAt(j) => i = j)
        /\ (\E i, j \in LoadedAt : i # j /\ tag_ids[i] = tag_ids[j])
             => Len(tag_images) < Len(tag_ids) - Cardinality(MissingAt)

\* three different ids, one of them without a file: two tags in the collection
C2_Witness ==
    /\ pc = "emit"
    /\ Len(tag_ids) = 3
    /\ Cardinality(MissingAt) = 1
    /\ Len(tag_images) = 2
    /\ \A i, j \in 1..3 : tag_ids[i] = tag_ids[j] => i = j

\* an id with a file, requested twice: one tag in the collection
C2_RepeatedReached ==
    /\ pc = "emit"
    /\ tag_ids = <<1, 1>>
    /\ MissingAt = {}
    /\ Len(tag_images) = 1

-----------------------------------------------------------------------------
(* C3: in a run in which every requested id either has no file (no match,  *)
(* or a matched path that does not exist) or has a file that decodes, an   *)
(* id without a file does not end the run: its message is printed, it is   *)
(* left out, the ids after it are processed, and the run gets to the write *)
(* of the output file with every id that has a file in the collection.     *)
C3_MissingIdNeverAborts ==
    (/\ Parsed
     /\ MissingAt # {}
     /\ \A i \in 1..Len(tag_ids) : LoadOutcome(tag_all, disk, tag_ids[i]) # "undecodable")
    => /\ Len(stdout) = Cardinality({i \in MissingAt : i < idx})
       /\ \A i \in LoadedAt : i < idx => DictHas(tag_images, NameAt(i))
       /\ pc = "fatal" => err = "OSError"

\* what holds of the loop in every run: the messages printed are those of
\* the ids without a file, in their order, each handled id with a file is
\* in the collection, and the loop ends the run only at a file that does
\* not decode
C3_SkipAndContinue ==
    Parsed =>
        /\ Len(stdout) = Cardinality({i \in MissingAt : i < idx})
        /\ \A i \in LoadedAt : i < idx => DictHas(tag_images, NameAt(i))
        /\ \A i \in MissingAt : i < idx =>
              \E k \in 1..Len(stdout) :
                  IF LoadOutcome(tag_all, disk, tag_ids[i]) = "no match"
                  THEN stdout[k].line = 132 /\ stdout[k].what = <<tag_ids[i]>>
                  ELSE stdout[k].line = 137 /\ stdout[k].what = SelectedFile(tag_all, tag_ids[i])
        /\ (pc = "fatal" /\ err = "UnidentifiedImageError") =>
              LoadOutcome(tag_all, disk, tag_ids[idx]) = "undecodable"
        /\ pc = "done" =>
              \A i \in LoadedAt :
                  \E k \in 1..Len(out_file.content) :
                      /\ out_file.content[k].el = "text"
                      /\ out_file.content[k].name = NameAt(i)

\* a run that skipped an id without a file, loaded the id after it and wrote
C3_SkippedThenWritten ==
    /\ pc = "done"
    /\ Len(tag_ids) >= 2
    /\ 1 \in MissingAt
    /\ 2 \in LoadedAt
    /\ Len(stdout) >= 1
    /\ Len(tag_images) >= 1

-----------------------------------------------------------------------------
(* C5: every array the loop stores for a file that decodes has the shape   *)
(* (height, width, 4) with the width and height of the file, whatever the  *)
(* mode of the file, and gen_apriltags_svg reads four values from every    *)
(* pixel of it.                                                            *)
C5_LoaderGivesRGBA ==
    Parsed =>
        /\ \A i \in LoadedAt : i < idx =>
              \E n \in 1..Len(tag_images) :
                  /\ tag_images[n].name = NameAt(i)
                  /\ tag_images[n].image.shape
                       = <<FileAt(disk, SelectedFile(tag_all, tag_ids[i])).height,
                           FileAt(disk, SelectedFile(tag_all, tag_ids[i])).width, 4>>
        /\ \A n \in 1..Len(tag_images) :
              /\ Len(tag_images[n].image.shape) = 3
              /\ tag_images[n].image.shape[3] = 4
        /\ err \notin {"TypeError", "ValueError"}

\* what the loader does: the arrays of the RGBA files have four bands
C5_RGBAFilesGiveRGBA ==
    \A n \in 1..Len(tag_images) :
        (\E f \in disk : TagName(f.path) = tag_images[n].name /\ f.mode # "RGBA")
        \/ tag_images[n].image.shape[3] = 4

-----------------------------------------------------------------------------
(* C9: the document a run writes does not depend on the order in which    *)
(* glob lists the files of the disk: every listing of the same disk with   *)
(* which the run gets to a document gets to the document written.          *)
C9_ListingIndependent ==
    pc = "done" =>
        \A l \in Listings(disk) :
            MainResult(tag_id, tag_size, margin, cols, disk, l).err = ""
              => MainResult(tag_id, tag_size, margin, cols, disk, l).doc = out_file.content

\* the steps of the run compute what MainResult composes
StepsAgreeWithMainResult ==
    /\ pc = "write" => svg_text = MainResult(tag_id, tag_size, margin, cols, disk, tag_all).doc
    /\ pc = "done" => out_file.content = MainResult(tag_id, tag_size, margin, cols, disk, tag_all).doc
    /\ (pc = "fatal" /\ err # "OSError") =>
          err = MainResult(tag_id, tag_size, margin, cols, disk, tag_all).err


\* in main too the collection is in the order in which its names were first
\* resolved: skipped ids and repeated names do not reorder it
FirstAt(name) == CHOOSE i \in LoadedAt : NameAt(i) = name /\ \A j \in LoadedAt : NameAt(j) = name => i <= j

CollectionInResolutionOrder ==
    LoopEnded =>
        \A a, b \in 1..Len(tag_images) :
            a < b => FirstAt(tag_images[a].name) < FirstAt(tag_images[b].name)

=============================================================================
